---- MODULE Spec2Model ----
(***************************************************************************)
(* Verification model of the on-chain price predictor's transaction        *)
(* pipelines: the crank service (src/scripts/crank.js), the 11-transaction *)
(* end-to-end run (src/scripts/_archived/test_e2e_devnet.js), the batched  *)
(* inference runs (test_nn_batched.js, user_inference.js), the chunked     *)
(* deployment (deploy script, unnamed/part_012), the 4-3-2 test driver     *)
(* (src/scripts/test.js), the codec of the Price Direction Predictor SDK   *)
(* (unnamed/part_000) with the decoding of the deployment script            *)
(* (unnamed/part_008), and the data collectors (unnamed/part_002,           *)
(* src/scripts/collect_data.js).                                           *)
(*                                                                         *)
(* JavaScript is single threaded: an action is the code that runs between  *)
(* two awaits.  A transaction handed to sendAndConfirmTransaction is "in   *)
(* flight" until the promise settles (resolves: confirmed, rejects: the    *)
(* transaction failed or was not confirmed).                               *)
(***************************************************************************)
EXTENDS Integers, Sequences, FiniteSets, TLC

VARIABLES
    crankPc,      \* crank.js main: "start" | "initial" | "periodic"
    cycles,       \* crank.js: one record per runCrankCycle invocation
    e2ePc,        \* test_e2e_devnet.js main: position
    e2eIdx,       \* test_e2e_devnet.js main: index of the current script
    e2eInflight,  \* test_e2e_devnet.js main: a transaction awaits confirmation
    results,      \* test_e2e_devnet.js main: the results array (success flags)
    prog,         \* inference run: "none" | "batched" (test_nn_batched.js) | "user" (user_inference.js)
    infPc,        \* inference main: "start" | "ready" | "wait" | "info" | "done" | "aborted"
    infNext,      \* inference main: index of the next transaction to submit
    features,     \* inference main: the features array
    txs,          \* substrate: inference transactions submitted and not yet settled
    submitted,    \* substrate: inference transactions ever submitted
    confirmed,    \* substrate: inference transactions confirmed executed
    featuresAcc,  \* substrate: leading bytes of the features account
    hiddenAcc,    \* substrate: hidden neurons written to the hidden account
    depPc,        \* writeToAccountChunked: "start" | "loop" | "done" | "aborted" | "threw"
    data,         \* writeToAccountChunked: the data argument
    chunkSize,    \* writeToAccountChunked: the chunkSize argument
    chunkI,       \* writeToAccountChunked: the loop variable i
    depTx,        \* substrate: the write instruction in flight (at most one)
    account,      \* substrate: the bytes of the account written to
    sent,         \* history: the offsets handed to writeAccountDirect, in order
    written,      \* history: the offsets the handler has copied a chunk to, in order
    testPc,       \* test.js main: "start" | "tests" | "done"
    decBytecode,  \* test.js main: length of the compiled decoder
    encBytecode,  \* test.js runTest: length of the generated encoder
    testCase,     \* test.js main: index of the test case being run
    testTx,       \* substrate: the transaction of runTest in flight (at most one)
    passed,       \* test.js main: passed counter
    failed,       \* test.js main: failed counter
    wPc,          \* a client of MODE_WRITE_ACCOUNT: "start" | "first" | "second" | "done" | "rejected"
    wInit,        \* substrate: the account's bytes before the client's first write
    wAccount,     \* substrate: the account's bytes
    wFirst,       \* history: the account's bytes after the first write
    wIx,          \* the client's write instruction (sent twice)
    wBeyond,      \* substrate: the bytes that follow the account's data in memory
    parsePc,      \* PricePredictor.parseResult: "start" | "returned" | "parsed"
    retValue,     \* substrate: the integer the decoder script evaluated to
    returnData,   \* substrate: the transaction's return data (bytes; <<>> when absent)
    parsed,       \* PricePredictor.parseResult: the result (<<>> for null)
    prediction,   \* deploy script (part_008) main: the prediction it prints (<<>>: none yet)
    flags,        \* SDK client: what isBullish and isBearish returned for the result (<<>>: not asked)
    normPc,       \* SDK client: "start" | "normalized" | "encoded"
    marketData,   \* normalizeFeatures: the marketData argument
    normalized,   \* SDK client: the features normalizeFeatures returned, then the bytes of encodeFeatures
    colProg,      \* data collector: "none" | "tick" (collect, part_002) | "hermes" (collect_data.js)
    colPc,        \* collector: "start" | "initial" | "periodic" (collect); "loop" | "final" | "done" (collectData)
    ticks,        \* collect: the number of ticks started
    colInflight,  \* collect: the number of ticks awaiting fetchData
    colNow,       \* collectData: Date.now() in seconds since startTime
    priceHistory, \* collector: the priceHistory array (observation number, timestamp)
    pendingLabels, \* collector: the pendingLabels array (observation number, labelTime)
    output,       \* substrate: the rows appended to the output file (sample, observation used)
    samples,      \* history: the observation numbers of the samples collected, in order
    obsTime       \* history: the time of each observation, by observation number

crankVars == <<crankPc, cycles>>
e2eVars == <<e2ePc, e2eIdx, e2eInflight, results>>
infVars == <<prog, infPc, infNext, features, txs, submitted, confirmed, featuresAcc, hiddenAcc>>
depVars == <<depPc, data, chunkSize, chunkI, depTx, account, sent, written>>
testVars == <<testPc, decBytecode, encBytecode, testCase, testTx, passed, failed>>
writeVars == <<wPc, wInit, wAccount, wFirst, wIx, wBeyond>>
parseVars == <<parsePc, retValue, returnData, parsed, prediction, flags>>
normVars == <<normPc, marketData, normalized>>
colVars ==
    <<colProg, colPc, ticks, colInflight, colNow, priceHistory, pendingLabels, output,
      samples, obsTime>>
codecVars == <<writeVars, parseVars, normVars, colVars>>
vars == <<crankVars, e2eVars, infVars, depVars, testVars, codecVars>>

(***************************************************************************)
(* Bounds                                                                  *)
(***************************************************************************)
\* number of runCrankCycle invocations explored (the initial run included)
MaxCycles == 3
\* feature values explored are 0, FeatureStep, ..., FeatureStep * MaxFeatureMul
MaxFeatureMul == 1
\* longest data written in chunks
MaxLen == 4
\* largest byte value in the data written
MaxByte == 1
\* largest chunkSize explored (the transport limit, scaled down)
MaxChunk == 3
\* the account's size ranges over 0 .. MaxLen + MaxSpare
MaxSpare == 1
\* compiled sizes explored lie within LenSlack bytes of the 946 byte limit
LenSlack == 1
\* calls of writeAccountDirect explored when a caller retries failed chunks
MaxSends == 6
\* decoder return values explored are -MaxAbsValue..MaxAbsValue and EdgeValues
MaxAbsValue == 52000
\* raw market data explored are the fractions RawStep * m / RawDen with
\* m in -MaxRawMul..MaxRawMul
RawDen == 100
RawStep == 70
MaxRawMul == 2
\* the longest compiled module handed to the deployment (bytes)
MaxModuleLen == 66000
\* the number of ticks the collector's interval timer fires
MaxTicks == 30
\* the duration option of collectData (seconds)
MaxDuration == 130

Range(s) == {s[i] : i \in 1..Len(s)}

(***************************************************************************)
(* crank.js                                                                *)
(***************************************************************************)
\* the accumulator scripts in order; accounts are the account names passed
ACCUMULATOR_SCRIPTS ==
    << [name |-> "accum_v2_p1",   accounts |-> <<"pyth", "accumulator">>],
       [name |-> "acc_sma",       accounts |-> <<"accumulator">>],
       [name |-> "acc_vol_a",     accounts |-> <<"accumulator">>],
       [name |-> "acc_mom",       accounts |-> <<"accumulator">>],
       [name |-> "acc_ray_liq",   accounts |-> <<"raydium_sol", "accumulator">>],
       [name |-> "acc_dex_price", accounts |-> <<"raydium_sol", "raydium_usdc", "accumulator">>],
       [name |-> "acc_spread",    accounts |-> <<"accumulator">>] >>

NumCrank == Len(ACCUMULATOR_SCRIPTS)

\* executePythonScript: every account of the script is passed to the program
CrankReads(k) == Range(ACCUMULATOR_SCRIPTS[k].accounts)

\* variant: the first account is the writable one
CrankWrites_first(k) == {ACCUMULATOR_SCRIPTS[k].accounts[1]}

\* executePythonScript: isWritable: i === accountPubkeys.length - 1
CrankWrites(k) ==
    LET a == ACCUMULATOR_SCRIPTS[k].accounts
    IN  {a[i] : i \in {j \in 1..Len(a) : j = Len(a)}}

\* a runCrankCycle invocation that has not been called yet
IdleCycle == [phase |-> "idle", idx |-> 0, inflight |-> FALSE, failedAt |-> 0]

\* an invocation whose caller has returned
DoneCycle == [phase |-> "done", idx |-> 0, inflight |-> FALSE, failedAt |-> 0]

\* index of the first script of this invocation whose transaction was
\* rejected (0: none so far)
NoteFailure(cyc, k) == IF cyc.failedAt = 0 THEN k ELSE cyc.failedAt

\* runCrankCycle has no return statement: its caller gets undefined, which
\* names no script; the set of failed script indexes the call reports
ReportedFailures(cyc) == {}

\* the for loop of runCrankCycle from script k up to the next await: scripts
\* k..j-1 throw in compilePython (the catch logs, the loop goes on), script j
\* is compiled and handed to sendAndConfirmTransaction; j = NumCrank + 1 is
\* the end of the loop.  After the return main (cycle 1) goes on to
\* setInterval, the interval callback goes on to await readAccumulatorState.
runCrankCycle(c, cyc, k) ==
    \E j \in k..(NumCrank + 1) :
        IF j <= NumCrank
        THEN /\ cycles' = [cycles EXCEPT ![c] =
                    [cyc EXCEPT !.phase = "run", !.idx = j, !.inflight = TRUE]]
             /\ crankPc' = IF c = 1 THEN "initial" ELSE crankPc
        ELSE /\ cycles' = [cycles EXCEPT ![c] =
                    IF c = 1 THEN DoneCycle
                    ELSE [cyc EXCEPT !.phase = "read", !.idx = 0, !.inflight = FALSE]]
             /\ crankPc' = IF c = 1 THEN "periodic" ELSE crankPc

\* main: "Initial run": await runCrankCycle(...)
MainStart ==
    /\ crankPc = "start"
    /\ runCrankCycle(1, IdleCycle, 1)
    /\ UNCHANGED <<e2eVars, infVars, depVars, testVars, codecVars>>

\* sendAndConfirmTransaction resolves: the signature is logged, next script
ExecuteConfirmed(c) ==
    /\ cycles[c].phase = "run"
    /\ cycles[c].inflight
    /\ runCrankCycle(c, [cycles[c] EXCEPT !.inflight = FALSE], cycles[c].idx + 1)
    /\ UNCHANGED <<e2eVars, infVars, depVars, testVars, codecVars>>

\* sendAndConfirmTransaction rejects: catch (e) logs the error, next script
ExecuteFailed(c) ==
    /\ cycles[c].phase = "run"
    /\ cycles[c].inflight
    /\ runCrankCycle(c,
          [cycles[c] EXCEPT !.inflight = FALSE,
                            !.failedAt = NoteFailure(cycles[c], cycles[c].idx)],
          cycles[c].idx + 1)
    /\ UNCHANGED <<e2eVars, infVars, depVars, testVars, codecVars>>

\* setInterval callback: fires every INTERVAL_MS whether or not the previous
\* callback has returned; it calls runCrankCycle
IntervalFire(c) ==
    /\ crankPc = "periodic"
    /\ c > 1
    /\ cycles[c].phase = "idle"
    /\ cycles[c - 1].phase # "idle"
    /\ runCrankCycle(c, IdleCycle, 1)
    /\ UNCHANGED <<e2eVars, infVars, depVars, testVars, codecVars>>

\* setInterval callback after runCrankCycle: readAccumulatorState resolves
\* (a state or null), the state is logged, the callback returns
ReadState(c) ==
    /\ cycles[c].phase = "read"
    /\ cycles' = [cycles EXCEPT ![c] = DoneCycle]
    /\ UNCHANGED <<crankPc, e2eVars, infVars, depVars, testVars, codecVars>>

\* the names of accountMap
CrankAccounts == {"pyth", "raydium_sol", "raydium_usdc", "accumulator"}

\* the crank cycles with a transaction in flight that may write the account
InFlightWriters(acct) ==
    {c \in 1..MaxCycles : cycles[c].inflight /\ acct \in CrankWrites(cycles[c].idx)}

(***************************************************************************)
(* _archived/test_e2e_devnet.js                                            *)
(***************************************************************************)
\* all 11 scripts; writes holds the (0-based) indexes of the writable accounts
ALL_SCRIPTS ==
    << [name |-> "1. Pyth>Shift",  accounts |-> <<"pyth", "accumulator">>, writes |-> {1}],
       [name |-> "2. SMA",         accounts |-> <<"accumulator">>, writes |-> {0}],
       [name |-> "3. Volatility",  accounts |-> <<"accumulator">>, writes |-> {0}],
       [name |-> "4. Momentum",    accounts |-> <<"accumulator">>, writes |-> {0}],
       [name |-> "5. Raydium Liq", accounts |-> <<"raydium_sol", "accumulator">>, writes |-> {1}],
       [name |-> "6. DEX Price",   accounts |-> <<"raydium_sol", "raydium_usdc", "accumulator">>, writes |-> {2}],
       [name |-> "7. Spread",      accounts |-> <<"accumulator">>, writes |-> {0}],
       [name |-> "8. Features",    accounts |-> <<"accumulator", "scratch1">>, writes |-> {1}],
       [name |-> "9. Hidden h0h1", accounts |-> <<"scratch1", "scratch2">>, writes |-> {1}],
       [name |-> "10. Hidden h2",  accounts |-> <<"scratch1", "scratch2">>, writes |-> {1}],
       [name |-> "11. Decoder",    accounts |-> <<"scratch2">>, writes |-> {}] >>

NumAll == Len(ALL_SCRIPTS)

\* executeScript: every account of the script is passed to the program
ScriptReads(k) == Range(ALL_SCRIPTS[k].accounts)

\* variant: the indexes in writes are taken to count from 1
ScriptWrites_oneBased(k) ==
    LET a == ALL_SCRIPTS[k].accounts
    IN  {a[i] : i \in {j \in 1..Len(a) : j \in ALL_SCRIPTS[k].writes}}

\* executeScript: isWritable: script.writes.includes(i)
ScriptWrites(k) ==
    LET a == ALL_SCRIPTS[k].accounts
    IN  {a[i] : i \in {j \in 1..Len(a) : (j - 1) \in ALL_SCRIPTS[k].writes}}

\* the accounts a script of ALL_SCRIPTS declares as written (writes holds
\* indexes into accounts, from 0); the first seven scripts are the files of
\* ACCUMULATOR_SCRIPTS, in the same order
DeclaredOutputs(k) ==
    LET a == ALL_SCRIPTS[k].accounts
    IN  {a[w + 1] : w \in {v \in ALL_SCRIPTS[k].writes : v < Len(a)}}

\* main up to the loop: balance check (airdrop when low; a failed airdrop
\* returns), then the six data accounts are created (a failed creation throws)
E2EStart ==
    /\ e2ePc = "start"
    /\ \E ok \in BOOLEAN : e2ePc' = IF ok THEN "loop" ELSE "done"
    /\ e2eIdx' = 1
    /\ UNCHANGED <<e2eInflight, results, crankVars, infVars, depVars, testVars, codecVars>>

\* loop body: executeScript compiles (a throw is caught: results.push
\* success false) and hands the transaction to sendAndConfirmTransaction
E2EExecute ==
    /\ e2ePc = "loop"
    /\ ~e2eInflight
    /\ \/ /\ e2eInflight' = TRUE
          /\ UNCHANGED <<e2ePc, results>>
       \/ /\ results' = Append(results, FALSE)
          /\ e2ePc' = "delay"
          /\ UNCHANGED e2eInflight
    /\ UNCHANGED <<e2eIdx, crankVars, infVars, depVars, testVars, codecVars>>

\* the transaction is confirmed: results.push success true, then the delay
E2EConfirmed ==
    /\ e2ePc = "loop"
    /\ e2eInflight
    /\ e2eInflight' = FALSE
    /\ results' = Append(results, TRUE)
    /\ e2ePc' = "delay"
    /\ UNCHANGED <<e2eIdx, crankVars, infVars, depVars, testVars, codecVars>>

\* the transaction fails: catch (e) pushes success false, then the delay
E2EFailed ==
    /\ e2ePc = "loop"
    /\ e2eInflight
    /\ e2eInflight' = FALSE
    /\ results' = Append(results, FALSE)
    /\ e2ePc' = "delay"
    /\ UNCHANGED <<e2eIdx, crankVars, infVars, depVars, testVars, codecVars>>

\* "Small delay between TXs" elapses: next script, or the summary
E2EDelay ==
    /\ e2ePc = "delay"
    /\ e2eIdx' = e2eIdx + 1
    /\ e2ePc' = IF e2eIdx + 1 <= NumAll THEN "loop" ELSE "summary"
    /\ UNCHANGED <<e2eInflight, results, crankVars, infVars, depVars, testVars, codecVars>>

\* summary: counts are printed, the accumulator state is read (try/catch)
E2ESummary ==
    /\ e2ePc = "summary"
    /\ e2ePc' = "done"
    /\ UNCHANGED <<e2eIdx, e2eInflight, results, crankVars, infVars, depVars, testVars, codecVars>>

(***************************************************************************)
(* _archived/test_nn_batched.js and user_inference.js                      *)
(***************************************************************************)
\* spacing of the feature values explored (Buffer.from wraps at 256)
FeatureStep == 300

FeatureVals == {FeatureStep * m : m \in 0..MaxFeatureMul}

\* user_inference.js main: "Exactly 6 features required"
NumFeatures == 6

\* Buffer.from(array): every element is stored modulo 256
BufferFrom(arr) == [i \in 1..Len(arr) |-> arr[i] % 256]

\* test_nn_batched.js main: TX1 write, TX2-5 hidden batches, TX6 decoder;
\* neurons lists the hidden neurons the batch script computes
BATCHED_UNITS ==
    << [label |-> "Write",   accounts |-> <<"features">>,           writable |-> {"features"}, neurons |-> {}],
       [label |-> "nn_h01",  accounts |-> <<"features", "hidden">>, writable |-> {"hidden"},   neurons |-> {0, 1}],
       [label |-> "nn_h23",  accounts |-> <<"features", "hidden">>, writable |-> {"hidden"},   neurons |-> {2, 3}],
       [label |-> "nn_h45",  accounts |-> <<"features", "hidden">>, writable |-> {"hidden"},   neurons |-> {4, 5}],
       [label |-> "nn_h67",  accounts |-> <<"features", "hidden">>, writable |-> {"hidden"},   neurons |-> {6, 7}],
       [label |-> "Decoder", accounts |-> <<"hidden">>,             writable |-> {},           neurons |-> {}] >>

\* user_inference.js main: TX1 writeFeatures, TX2 runInference
USER_UNITS ==
    << [label |-> "writeFeatures", accounts |-> <<"features">>, writable |-> {"features"}, neurons |-> {}],
       [label |-> "runInference",  accounts |-> <<"module", "weights", "features">>, writable |-> {}, neurons |-> {}] >>

Units == IF prog = "user" THEN USER_UNITS ELSE BATCHED_UNITS

\* the features main draws with Math.random: lowest and highest value of each
BATCHED_FEATURE_RANGE ==
    << {118, 137}, {108, 147}, {0, 49}, {113, 142}, {0, 254}, {0, 254} >>

\* variant: the rejection is caught and logged, and main goes on
RejectedPc_caught == "ready"

\* neither main wraps its awaits in try/catch: a rejected transaction rejects
\* main (main().catch(console.error)) and nothing more is submitted
RejectedPc == "aborted"

\* test_nn_batched.js main up to TX1: the two accounts are created (a failed
\* creation throws), the Pyth price is read, the features are drawn
BatchedMain ==
    /\ prog = "none"
    /\ prog' = "batched"
    /\ \/ /\ infPc' = "ready"
          /\ \E f1 \in BATCHED_FEATURE_RANGE[1], f2 \in BATCHED_FEATURE_RANGE[2],
                f3 \in BATCHED_FEATURE_RANGE[3], f4 \in BATCHED_FEATURE_RANGE[4],
                f5 \in BATCHED_FEATURE_RANGE[5], f6 \in BATCHED_FEATURE_RANGE[6] :
                features' = <<f1, f2, f3, f4, f5, f6>>
       \/ /\ infPc' = "aborted"
          /\ UNCHANGED features
    /\ infNext' = 1
    /\ UNCHANGED <<txs, submitted, confirmed, featuresAcc, hiddenAcc, crankVars, e2eVars, depVars, testVars, codecVars>>

\* user_inference.js main up to TX1: deployment.json must exist and exactly
\* 6 features must be given, otherwise process.exit(1)
UserMain ==
    /\ prog = "none"
    /\ prog' = "user"
    /\ \E n \in (NumFeatures - 1)..NumFeatures : \E f \in [1..n -> FeatureVals] :
          /\ features' = f
          /\ \E deployed \in BOOLEAN :
                infPc' = IF deployed /\ Len(f) = NumFeatures THEN "ready" ELSE "aborted"
    /\ infNext' = 1
    /\ UNCHANGED <<txs, submitted, confirmed, featuresAcc, hiddenAcc, crankVars, e2eVars, depVars, testVars, codecVars>>

\* the next transaction is built (its script compiled) and handed to
\* sendAndConfirmTransaction
InfSubmit ==
    /\ infPc = "ready"
    /\ infNext <= Len(Units)
    /\ txs' = txs \cup {infNext}
    /\ submitted' = submitted \cup {infNext}
    /\ infNext' = infNext + 1
    /\ infPc' = "wait"
    /\ UNCHANGED <<prog, features, confirmed, featuresAcc, hiddenAcc, crankVars, e2eVars, depVars, testVars, codecVars>>

\* compilePython throws (execSync fails): main rejects, console.error
InfCompileThrows ==
    /\ infPc = "ready"
    /\ prog = "batched" \/ infNext = 2
    /\ infNext <= Len(Units)
    /\ infPc' = "aborted"
    /\ UNCHANGED <<prog, infNext, features, txs, submitted, confirmed, featuresAcc,
                   hiddenAcc, crankVars, e2eVars, depVars, testVars, codecVars>>

\* the substrate executes transaction k and confirms it: its writes become
\* visible; the caller goes on to getTransaction (writeFeatures returns)
InfConfirmed(k) ==
    /\ k \in txs
    /\ txs' = txs \ {k}
    /\ confirmed' = confirmed \cup {k}
    /\ featuresAcc' = IF "features" \in Units[k].writable
                      THEN BufferFrom(features) ELSE featuresAcc
    /\ hiddenAcc' = hiddenAcc \cup Units[k].neurons
    /\ infPc' = IF prog = "user" /\ k = 1 THEN "ready" ELSE "info"
    /\ UNCHANGED <<prog, infNext, features, submitted, crankVars, e2eVars, depVars, testVars, codecVars>>

\* the transaction fails: sendAndConfirmTransaction rejects, nothing is
\* written, main rejects
InfFailed(k) ==
    /\ k \in txs
    /\ txs' = txs \ {k}
    /\ infPc' = RejectedPc
    /\ UNCHANGED <<prog, infNext, features, submitted, confirmed, featuresAcc,
                   hiddenAcc, crankVars, e2eVars, depVars, testVars, codecVars>>

\* connection.getTransaction settles: the result is returned and logged (after
\* the last transaction the prediction is printed), or main rejects
InfGetTransaction ==
    /\ infPc = "info"
    /\ \/ infPc' = IF infNext > Len(Units) THEN "done" ELSE "ready"
       \/ infPc' = "aborted"
    /\ UNCHANGED <<prog, infNext, features, txs, submitted, confirmed, featuresAcc,
                   hiddenAcc, crankVars, e2eVars, depVars, testVars, codecVars>>

(***************************************************************************)
(* deploy script (unnamed/part_012) and the MODE_WRITE_ACCOUNT handler     *)
(***************************************************************************)
\* Buffer.writeUInt16LE accepts 0..65535 and throws a RangeError beyond
U16_MAX == 65535

\* variant: the high byte comes first
WriteUInt16LE_be(offset) == <<(offset \div 256) % 256, offset % 256>>

\* offsetBuf.writeUInt16LE(offset): low byte first
WriteUInt16LE(offset) == <<offset % 256, (offset \div 256) % 256>>

\* handler: uint16_t offset = params->data[1] | (params->data[2] << 8)
ReadOffset(buf) == buf[1] + buf[2] * 256

\* variant: the number of chunks is rounded down
NumChunks_floor(len, cs) == len \div cs

\* Math.ceil(data.length / chunkSize), chunkSize >= 1
NumChunks(len, cs) == (len + cs - 1) \div cs

\* variant: the chunk index itself is used as the offset
ChunkOffset_unscaled(i, cs) == i

\* const offset = i * chunkSize
ChunkOffset(i, cs) == i * cs

\* data.slice(offset, offset + chunkSize): both ends are clipped to the length
Slice(buf, from, to) ==
    LET lo == IF from > Len(buf) THEN Len(buf) ELSE from
        hi == IF to > Len(buf) THEN Len(buf) ELSE to
    IN  IF hi <= lo THEN <<>> ELSE SubSeq(buf, lo + 1, hi)

\* variant: the handler adds the payload to the bytes present
Memcpy_add(acct, offset, payload) ==
    [j \in 1..Len(acct) |->
        IF j > offset /\ j <= offset + Len(payload)
        THEN (acct[j] + payload[j - offset]) % 256
        ELSE acct[j]]

\* sol_memcpy(acct->data + offset, payload, payload_len)
\* (the bytes before the offset, the payload, the bytes after it; a copy is
\* clipped to the memory it is given)
Memcpy(acct, offset, payload) ==
    LET n == Len(acct)
        lo == IF offset > n THEN n ELSE offset
        hi == IF offset + Len(payload) > n THEN n ELSE offset + Len(payload)
    IN  SubSeq(acct, 1, lo) \o SubSeq(payload, 1, hi - lo) \o SubSeq(acct, hi + 1, n)

\* variant: the handler copies without comparing with acct->data_len
HandlerAccepts_unchecked(acct, ix) == TRUE

\* handler: offset + payload_len > acct->data_len returns ERROR_INVALID_ARGUMENT
\* (data_len >= 3 and is_writable always hold for writeAccountDirect)
HandlerAccepts(acct, ix) == ReadOffset(ix.offsetBuf) + Len(ix.payload) <= Len(acct)

\* writeAccountDirect up to its await: the instruction [0x03][offset][data]
\* is built and sent; writeUInt16LE throws when the offset does not fit
writeAccountDirect(chunk, offset) ==
    IF offset > U16_MAX
    THEN /\ depPc' = "threw"
         /\ depTx' = <<>>
         /\ UNCHANGED sent
    ELSE /\ depPc' = "loop"
         /\ depTx' = << [offsetBuf |-> WriteUInt16LE(offset), payload |-> chunk] >>
         /\ sent' = Append(sent, offset)

\* the for loop of writeToAccountChunked at index i up to the next await
writeToAccountChunked(buf, cs, i) ==
    IF i < NumChunks(Len(buf), cs)
    THEN writeAccountDirect(
            Slice(buf, ChunkOffset(i, cs), ChunkOffset(i, cs) + cs),
            ChunkOffset(i, cs))
    ELSE /\ depPc' = "done"
         /\ depTx' = <<>>
         /\ UNCHANGED sent

\* variant: the loop advances by two
NextChunk_skip(i) == i + 2

\* for (let i = 0; i < numChunks; i++)
NextChunk(i) == i + 1

\* writeToAccountChunked is called with the data, a chunkSize and an account
\* (zero filled at creation).  The function takes any account: it does not
\* look at the account's size (main sizes the module account itself).
DeployStart ==
    /\ depPc = "start"
    /\ \E len \in 0..MaxLen : \E buf \in [1..len -> 0..MaxByte] :
       \E cs \in 1..MaxChunk : \E space \in 0..(MaxLen + MaxSpare) :
          /\ data' = buf
          /\ chunkSize' = cs
          /\ account' = [j \in 1..space |-> 0]
          /\ chunkI' = 0
          /\ writeToAccountChunked(buf, cs, 0)
    /\ UNCHANGED <<written, crankVars, e2eVars, infVars, testVars, codecVars>>

\* writeToAccountChunked(..., chunkSize = 900)
DefaultChunkSize == 900

\* main: Math.max(moduleBytecode.length + 64, 4096)
ModulePadding == 64
MinModuleSpace == 4096

\* main: moduleSpace
ModuleSpace(len) ==
    IF len + ModulePadding > MinModuleSpace THEN len + ModulePadding ELSE MinModuleSpace

\* the lengths of the compiled module: one of a few chunks, and the longest
ModuleLens == {MaxModuleLen \div 30, MaxModuleLen}

\* main: the module account is created with moduleSpace bytes (zero filled)
\* and writeToAccountChunked is called with the compiled module and the
\* default chunkSize
DeployMain ==
    /\ depPc = "start"
    /\ \E len \in ModuleLens :
          LET moduleBytecode == [j \in 1..len |-> j % 256]
          IN  /\ data' = moduleBytecode
              /\ chunkSize' = DefaultChunkSize
              /\ account' = [j \in 1..ModuleSpace(len) |-> 0]
              /\ chunkI' = 0
              /\ writeToAccountChunked(moduleBytecode, DefaultChunkSize, 0)
    /\ UNCHANGED <<written, crankVars, e2eVars, infVars, testVars, codecVars>>

\* the handler accepts the write and the transaction is confirmed: the chunk
\* is in the account, the loop goes on with the next chunk
ChunkConfirmed ==
    /\ depPc = "loop"
    /\ depTx # <<>>
    /\ HandlerAccepts(account, depTx[1])
    /\ account' = Memcpy(account, ReadOffset(depTx[1].offsetBuf), depTx[1].payload)
    /\ written' = Append(written, ReadOffset(depTx[1].offsetBuf))
    /\ chunkI' = NextChunk(chunkI)
    /\ writeToAccountChunked(data, chunkSize, NextChunk(chunkI))
    /\ UNCHANGED <<data, chunkSize, crankVars, e2eVars, infVars, testVars, codecVars>>

\* the handler returns an error or the transaction is not confirmed:
\* sendAndConfirmTransaction rejects, nothing is written, the deployment stops
ChunkFailed ==
    /\ depPc = "loop"
    /\ depTx # <<>>
    /\ depTx' = <<>>
    /\ depPc' = "aborted"
    /\ UNCHANGED <<data, chunkSize, chunkI, account, sent, written,
                   crankVars, e2eVars, infVars, testVars, codecVars>>

(***************************************************************************)
(* A caller that retries a failed chunk.  writeToAccountChunked has no      *)
(* retry and no start index: the caller goes on chunk by chunk with         *)
(* writeAccountDirect, the chunks computed as writeToAccountChunked does.   *)
(***************************************************************************)
\* variant: the caller starts again from the first chunk
RetryIndex_restart(i) == 0

\* the chunk retried is the chunk whose write failed
RetryIndex(i) == i

\* the write of chunk i fails (nothing is written) and the caller calls
\* writeAccountDirect again
ChunkRetried ==
    /\ depPc = "loop"
    /\ depTx # <<>>
    /\ Len(sent) < MaxSends
    /\ chunkI' = RetryIndex(chunkI)
    /\ writeAccountDirect(
          Slice(data, ChunkOffset(RetryIndex(chunkI), chunkSize),
                ChunkOffset(RetryIndex(chunkI), chunkSize) + chunkSize),
          ChunkOffset(RetryIndex(chunkI), chunkSize))
    /\ UNCHANGED <<data, chunkSize, account, written,
                   crankVars, e2eVars, infVars, testVars, codecVars>>

(***************************************************************************)
(* A client of MODE_WRITE_ACCOUNT that sends the same write twice          *)
(* (writeAccountDirect, user_inference.js writeFeatures)                   *)
(***************************************************************************)
\* the bytes after the account's data in the program's input (the account's
\* zeroed spare space): sol_memcpy is handed acct->data + offset, a pointer
\* into this memory
BeyondBytes == [j \in 1..(MaxLen + MaxChunk) |-> 0]

\* variant: the bytes of a refused write that fit are in the account
RejectedWrite_partial(acct, ix) ==
    Memcpy(acct, ReadOffset(ix.offsetBuf), ix.payload)

\* handler: return ERROR_INVALID_ARGUMENT comes before sol_memcpy, the
\* account is as it was
RejectedWrite(acct, ix) == acct

\* the instruction [0x03][offset][data] is built for an account with some
\* contents
WriteStart ==
    /\ wPc = "start"
    /\ \E space \in 0..MaxLen : \E acct \in [1..space -> 0..MaxByte] :
       \E len \in 0..MaxChunk : \E payload \in [1..len -> 0..MaxByte] :
       \E offset \in 0..MaxLen :
          /\ wInit' = acct
          /\ wAccount' = acct
          /\ wIx' = [offsetBuf |-> WriteUInt16LE(offset), payload |-> payload]
    /\ wBeyond' = BeyondBytes
    /\ wPc' = "first"
    /\ UNCHANGED <<wFirst, parseVars, normVars, colVars, crankVars, e2eVars, infVars, depVars, testVars>>

\* the substrate runs the handler on the instruction: an accepted write is
\* copied into the account (and the client sends the instruction once more),
\* a write past the end of the account is an error
WriteExecute ==
    /\ wPc \in {"first", "second"}
    /\ IF HandlerAccepts(wAccount, wIx)
       THEN LET mem == Memcpy(wAccount \o wBeyond, ReadOffset(wIx.offsetBuf), wIx.payload)
                acct == SubSeq(mem, 1, Len(wAccount))
            IN  /\ wAccount' = acct
                /\ wBeyond' = SubSeq(mem, Len(wAccount) + 1, Len(mem))
                /\ wFirst' = IF wPc = "first" THEN acct ELSE wFirst
                /\ wPc' = IF wPc = "first" THEN "second" ELSE "done"
       ELSE /\ wPc' = "rejected"
            /\ wAccount' = RejectedWrite(wAccount, wIx)
            /\ UNCHANGED <<wFirst, wBeyond>>
    /\ UNCHANGED <<wInit, wIx, parseVars, normVars, colVars, crankVars, e2eVars, infVars, depVars, testVars>>

(***************************************************************************)
(* test.js                                                                 *)
(***************************************************************************)
\* main: const maxBytecode = 946
maxBytecode == 946

\* setComputeUnitLimit({ units: 1_400_000 }) on every transaction of runTest
ComputeUnitLimit == 1400000

\* the four entries of TEST_CASES
NumTestCases == 4

\* sizes the compiler may report
CompiledSizes == (maxBytecode - LenSlack)..(maxBytecode + LenSlack)

\* main: "Verify bytecode fits in transaction": only the decoder is measured
BytecodeFits(decLen) == ~(decLen > maxBytecode)

\* runTest from its start up to the first await, for test case t: the encoder
\* is generated (size logged, a compiler failure throws) and the transaction
\* creating the hidden state account is sent.  After the last test case the
\* summary is printed.
runTest(t, p, f) ==
    IF t > NumTestCases
    THEN /\ testPc' = "done"
         /\ testTx' = <<>>
         /\ UNCHANGED encBytecode
         /\ testCase' = t /\ passed' = p /\ failed' = f
    ELSE /\ testPc' = "tests"
         /\ \E n \in CompiledSizes :
               /\ encBytecode' = n
               /\ testTx' = << [kind |-> "create", size |-> 0, units |-> 0] >>
         /\ testCase' = t /\ passed' = p /\ failed' = f

\* main up to the first await of the first runTest: balance check, the
\* decoder is compiled and measured; main returns when it is too large
TestMain ==
    /\ testPc = "start"
    /\ \E n \in CompiledSizes : \E funded \in BOOLEAN :
          /\ decBytecode' = n
          /\ IF funded /\ BytecodeFits(n)
             THEN runTest(1, 0, 0)
             ELSE /\ testPc' = "done"
                  /\ UNCHANGED <<encBytecode, testCase, testTx, passed, failed>>
    /\ UNCHANGED <<crankVars, e2eVars, infVars, depVars, codecVars>>

\* the account exists: the encoder transaction is built and sent
TestCreateConfirmed ==
    /\ testPc = "tests"
    /\ testTx # <<>> /\ testTx[1].kind = "create"
    /\ testTx' = << [kind |-> "encoder", size |-> encBytecode, units |-> ComputeUnitLimit] >>
    /\ UNCHANGED <<testPc, decBytecode, encBytecode, testCase, passed, failed,
                   crankVars, e2eVars, infVars, depVars, codecVars>>

\* the encoder transaction is confirmed (its details are fetched and logged):
\* the decoder transaction is built and sent
TestEncoderConfirmed ==
    /\ testPc = "tests"
    /\ testTx # <<>> /\ testTx[1].kind = "encoder"
    /\ testTx' = << [kind |-> "decoder", size |-> decBytecode, units |-> ComputeUnitLimit] >>
    /\ UNCHANGED <<testPc, decBytecode, encBytecode, testCase, passed, failed,
                   crankVars, e2eVars, infVars, depVars, codecVars>>

\* the decoder transaction is confirmed: runTest returns success (no err in
\* either transaction's meta) or not, main counts and runs the next test case
TestDecoderConfirmed ==
    /\ testPc = "tests"
    /\ testTx # <<>> /\ testTx[1].kind = "decoder"
    /\ \E success \in BOOLEAN :
          IF success THEN runTest(testCase + 1, passed + 1, failed)
          ELSE runTest(testCase + 1, passed, failed + 1)
    /\ UNCHANGED <<decBytecode, crankVars, e2eVars, infVars, depVars, codecVars>>

\* a transaction of runTest is rejected: runTest throws, main's catch counts
\* a failure and runs the next test case
TestTxFailed ==
    /\ testPc = "tests"
    /\ testTx # <<>>
    /\ runTest(testCase + 1, passed, failed + 1)
    /\ UNCHANGED <<decBytecode, crankVars, e2eVars, infVars, depVars, codecVars>>

(***************************************************************************)
(* Price Direction Predictor SDK (unnamed/part_000): parseResult, getSignal *)
(***************************************************************************)
\* the least and the greatest signed 32-bit integer
INT32_MIN == -2147483647 - 1
INT32_MAX == 2147483647

\* values the decoder script may evaluate to that are explored besides
\* -MaxAbsValue..MaxAbsValue
EdgeValues == {INT32_MIN, INT32_MAX, -75123}

DecodeValues == (-MaxAbsValue..MaxAbsValue) \cup EdgeValues

\* substrate: a 32-bit return value as 4 bytes, little endian, two's complement
WriteInt32LE(v) ==
    << v % 256, (v \div 256) % 256, (v \div 65536) % 256, (v \div 16777216) % 256 >>

\* returnData.readInt32LE(0)
ReadInt32LE(buf) ==
    LET hi == IF buf[4] >= 128 THEN buf[4] - 256 ELSE buf[4]
    IN  hi * 16777216 + (buf[3] * 65536 + buf[2] * 256 + buf[1])

\* variant: the quotient is truncated toward zero
MathFloorDiv_trunc(a, b) ==
    IF a >= 0 \/ a % b = 0 THEN a \div b ELSE (a \div b) + 1

\* Math.floor(a / b), b > 0
MathFloorDiv(a, b) == a \div b

\* a % b of JavaScript, b > 0: the remainder has the sign of a
JsRem(a, b) == IF a < 0 /\ a % b # 0 THEN (a % b) - b ELSE a % b

\* Math.abs
MathAbs(x) == IF x < 0 THEN -x ELSE x

\* variant: the direction is looked at before the confidence
getSignal_directionFirst(direction, confidence) ==
    IF direction > 50 THEN "strong_buy"
    ELSE IF direction > 0 THEN "buy"
    ELSE IF direction < -50 THEN "strong_sell"
    ELSE IF direction < 0 THEN "sell"
    ELSE "hold"

\* getSignal(direction, confidence)
getSignal(direction, confidence) ==
    IF confidence < 100 THEN "hold"
    ELSE IF direction > 50 THEN "strong_buy"
    ELSE IF direction > 0 THEN "buy"
    ELSE IF direction < -50 THEN "strong_sell"
    ELSE IF direction < 0 THEN "sell"
    ELSE "hold"

\* parseResult(returnData): null (here <<>>) without return data, else the
\* result object (here a sequence holding it)
parseResult(buf) ==
    IF buf = <<>> THEN <<>>
    ELSE LET value == ReadInt32LE(buf)
             direction == MathFloorDiv(value, 1000)
             confidence == MathAbs(JsRem(value, 1000))
         IN  << [direction |-> IF direction > 0 THEN 1 ELSE IF direction < 0 THEN -1 ELSE 0,
                 rawDirection |-> direction,
                 confidence |-> confidence,
                 signal |-> getSignal(direction, confidence)] >>

\* substrate: the decoder transaction is confirmed; its script evaluated to
\* some 32-bit integer, returned as return data, or there is no return data
DecoderReturns ==
    /\ parsePc = "start"
    /\ \/ \E v \in DecodeValues :
             /\ retValue' = v
             /\ returnData' = WriteInt32LE(v)
       \/ /\ returnData' = <<>>
          /\ UNCHANGED retValue
    /\ parsePc' = "returned"
    /\ UNCHANGED <<parsed, prediction, flags, writeVars, normVars, colVars, crankVars, e2eVars, infVars, depVars, testVars>>

\* the client calls parseResult on the return data
ParseResult ==
    /\ parsePc = "returned"
    /\ parsed' = parseResult(returnData)
    /\ parsePc' = "parsed"
    /\ UNCHANGED <<retValue, returnData, prediction, flags, writeVars, normVars, colVars, crankVars, e2eVars, infVars, depVars, testVars>>

\* deploy script (part_008) main, "Parse result": direction and confidence
\* of the decoder's return value
deployDecode(buf) ==
    LET value == ReadInt32LE(buf)
    IN  [direction |-> MathFloorDiv(value, 1000), confidence |-> JsRem(value, 1000)]

\* the deployment script decodes the return data of its decoder transaction
\* (if (result): nothing is decoded without return data)
DeployParse ==
    /\ parsePc \in {"returned", "parsed"}
    /\ returnData # <<>>
    /\ prediction = <<>>
    /\ prediction' = << deployDecode(returnData) >>
    /\ UNCHANGED <<parsePc, retValue, returnData, parsed, flags, writeVars, normVars,
                   colVars, crankVars, e2eVars, infVars, depVars, testVars>>

\* variant: the confidence is not looked at
isBullish_anyConfidence(result) == result.direction > 0

\* isBullish(result)
isBullish(result) == result.direction > 0 /\ result.confidence > 150

\* isBearish(result)
isBearish(result) == result.direction < 0 /\ result.confidence > 150

\* the client asks isBullish and isBearish about the result of parseResult
CheckSignal ==
    /\ parsePc = "parsed"
    /\ parsed # <<>>
    /\ flags = <<>>
    /\ flags' = << [bullish |-> isBullish(parsed[1]), bearish |-> isBearish(parsed[1])] >>
    /\ UNCHANGED <<parsePc, retValue, returnData, parsed, prediction, writeVars, normVars,
                   colVars, crankVars, e2eVars, infVars, depVars, testVars>>

\* buildEncoderInstruction: keys
ENCODER_KEYS ==
    << [account |-> "payer",   isSigner |-> TRUE,  isWritable |-> TRUE],
       [account |-> "weights", isSigner |-> FALSE, isWritable |-> FALSE],
       [account |-> "hidden",  isSigner |-> FALSE, isWritable |-> TRUE] >>

\* buildDecoderInstruction: keys
DECODER_KEYS ==
    << [account |-> "payer",   isSigner |-> TRUE,  isWritable |-> TRUE],
       [account |-> "weights", isSigner |-> FALSE, isWritable |-> FALSE],
       [account |-> "hidden",  isSigner |-> FALSE, isWritable |-> FALSE] >>

\* the data accounts (all keys but the paying signer) passed writable
WritableSlots(keys) ==
    {keys[i].account : i \in {j \in 1..Len(keys) : keys[j].isWritable /\ ~keys[j].isSigner}}

(***************************************************************************)
(* Price Direction Predictor SDK (unnamed/part_000): normalizeFeatures      *)
(*                                                                         *)
(* The raw market data are rationals: a field holds the numerator of a     *)
(* fraction with denominator RawDen.  Products and quotients are exact.    *)
(***************************************************************************)
RawVals == {RawStep * m : m \in (-MaxRawMul)..MaxRawMul}

\* prices are positive
PosRawVals == {RawStep * m : m \in 1..MaxRawMul}

\* Math.floor(num / den), den > 0
MathFloor(num, den) == num \div den

\* Math.round(num / den), den > 0: the nearest integer, a half goes up
MathRound(num, den) == (2 * num + den) \div (2 * den)

\* clamp(value): Math.max(0, Math.min(255, value))
clamp(value) ==
    LET m == IF value < 255 THEN value ELSE 255
    IN  IF m > 0 THEN m ELSE 0

\* marketData before normalizeFeatures is called
NoMarketData ==
    [vwap |-> 0, price |-> 0, volumeChange |-> 0, bidAskRatio |-> 0,
     volatility |-> 0, liquidityRatio |-> 0, momentum |-> 0]

\* normalizeFeatures(marketData) of the SDK
normalizeFeatures(md) ==
    [vwapRatio      |-> clamp(MathFloor(md.vwap * 128, md.price)),
     volumeAccel    |-> clamp(MathFloor(128 * RawDen + md.volumeChange * 64, RawDen)),
     orderbookImbal |-> clamp(MathFloor(128 * RawDen + md.bidAskRatio * 64, RawDen)),
     volatility     |-> clamp(MathFloor(md.volatility * 255, RawDen)),
     liquidity      |-> clamp(MathFloor(md.liquidityRatio * 255, RawDen)),
     momentum       |-> clamp(MathFloor(128 * RawDen + md.momentum * 127, RawDen))]

\* encodeFeatures(features): Buffer.from of the six features in order
encodeFeatures(f) ==
    BufferFrom(<<f.vwapRatio, f.volumeAccel, f.orderbookImbal,
                 f.volatility, f.liquidity, f.momentum>>)

\* a client calls normalizeFeatures on some market data and encodeFeatures
\* on the result
NormalizeFeatures ==
    /\ normPc = "start"
    /\ \E vw \in PosRawVals, pr \in PosRawVals, vc \in RawVals, ba \in RawVals,
          vo \in RawVals, li \in RawVals, mo \in RawVals :
          /\ marketData' = [vwap |-> vw, price |-> pr, volumeChange |-> vc,
                            bidAskRatio |-> ba, volatility |-> vo,
                            liquidityRatio |-> li, momentum |-> mo]
          /\ normalized' = << normalizeFeatures(marketData') >>
    /\ normPc' = "normalized"
    /\ UNCHANGED <<writeVars, parseVars, colVars, crankVars, e2eVars, infVars, depVars, testVars>>

\* the bytes encodeFeatures makes of the features are sent to the account
EncodeFeatures ==
    /\ normPc = "normalized"
    /\ normalized' = Append(normalized, encodeFeatures(normalized[1]))
    /\ normPc' = "encoded"
    /\ UNCHANGED <<marketData, writeVars, parseVars, colVars, crankVars, e2eVars, infVars, depVars, testVars>>

(***************************************************************************)
(* Data collectors: collect (unnamed/part_002) and collectData              *)
(* (src/scripts/collect_data.js).  An observation is a successful fetch;    *)
(* observations are numbered in the order they are made, and a price is     *)
(* identified by the number of its observation.                            *)
(***************************************************************************)
\* CONFIG.LOOKAHEAD (part_002)
LOOKAHEAD == 6
\* MAX_HISTORY (part_002)
MAX_HISTORY == 20
\* calculateFeatures (part_002): history.length < 4 returns null
MinHistory == 4
\* CONFIG.DEFAULT_INTERVAL, CONFIG.LOOKAHEAD_SECONDS (collect_data.js), the
\* 120 seconds of history kept, the samples needed for features and the
\* wait before the final price (LOOKAHEAD_SECONDS * 1000 + 1000 ms)
DEFAULT_INTERVAL == 10
LOOKAHEAD_SECONDS == 60
HistorySeconds == 120
MinSamples == 6
FinalWait == 61

\* variant: an entry is labelled as soon as LOOKAHEAD entries are pending
HasFutureData_early(pending) == Len(pending) >= LOOKAHEAD

\* tick: while (pendingLabels.length > CONFIG.LOOKAHEAD)
HasFutureData(pending) == Len(pending) > LOOKAHEAD

\* tick: the while loop; every entry shifted out is labelled with the price
\* of the observation obs and appended to the file.  The result is the pair
\* of the pending entries left and the rows of the file.
RECURSIVE LabelOld(_, _, _)
LabelOld(pending, rows, obs) ==
    IF pending # <<>> /\ HasFutureData(pending)
    THEN LabelOld(Tail(pending),
                  Append(rows, [sample |-> Head(pending).obs, future |-> obs]), obs)
    ELSE <<pending, rows>>

\* tick after await fetchData() returned data (observation obs): push and
\* shift of priceHistory, calculateFeatures, push of the features and the
\* labelling loop
TickBody(obs) ==
    LET pushed == Append(priceHistory, [obs |-> obs, timestamp |-> 0])
        history == IF Len(pushed) > MAX_HISTORY THEN Tail(pushed) ELSE pushed
        feats == IF Len(history) < MinHistory THEN <<>>
                    ELSE << [obs |-> history[Len(history)].obs, labelTime |-> 0] >>
        labelled == LabelOld(pendingLabels \o feats, output, obs)
    IN  /\ priceHistory' = history
        /\ obsTime' = Append(obsTime, 0)
        /\ IF feats # <<>>
           THEN /\ pendingLabels' = labelled[1]
                /\ output' = labelled[2]
                /\ samples' = Append(samples, obs)
           ELSE UNCHANGED <<pendingLabels, output, samples>>

\* collect: the CSV header is written, then "Initial fetch": await tick()
Collect ==
    /\ colPc = "start"
    /\ colProg' = "tick"
    /\ colPc' = "initial"
    /\ ticks' = 1
    /\ colInflight' = 1
    /\ UNCHANGED <<colNow, priceHistory, pendingLabels, output, samples, obsTime,
                   writeVars, parseVars, normVars, crankVars, e2eVars, infVars, depVars, testVars>>

\* the fetchData of a tick returns: null (if (!data) return) or the data, and
\* the rest of the tick runs; after the initial tick collect goes on to
\* setInterval(tick, CONFIG.INTERVAL_MS)
TickFetched ==
    /\ colProg = "tick"
    /\ colInflight > 0
    /\ colInflight' = colInflight - 1
    /\ colPc' = "periodic"
    /\ \/ TickBody(Len(obsTime) + 1)
       \/ UNCHANGED <<priceHistory, pendingLabels, output, samples, obsTime>>
    /\ UNCHANGED <<colProg, ticks, colNow,
                   writeVars, parseVars, normVars, crankVars, e2eVars, infVars, depVars, testVars>>

\* the interval timer calls tick, whether or not earlier ticks have returned
IntervalTick ==
    /\ colProg = "tick"
    /\ colPc = "periodic"
    /\ ticks < MaxTicks
    /\ ticks' = ticks + 1
    /\ colInflight' = colInflight + 1
    /\ UNCHANGED <<colProg, colPc, colNow, priceHistory, pendingLabels, output, samples, obsTime,
                   writeVars, parseVars, normVars, crankVars, e2eVars, infVars, depVars, testVars>>

\* collectData: while (priceHistory.length > 0 && priceHistory[0].timestamp < cutoff)
RECURSIVE DropOld(_, _)
DropOld(history, cutoff) ==
    IF history # <<>> /\ Head(history).timestamp < cutoff
    THEN DropOld(Tail(history), cutoff)
    ELSE history

\* collectData: while (pendingLabels.length > 0 && pendingLabels[0].labelTime <= now)
RECURSIVE LabelDue(_, _, _, _)
LabelDue(pending, rows, now, obs) ==
    IF pending # <<>> /\ Head(pending).labelTime <= now
    THEN LabelDue(Tail(pending),
                  Append(rows, [sample |-> Head(pending).obs, future |-> obs]), now, obs)
    ELSE <<pending, rows>>

\* collectData: "Process remaining pending labels": while (pendingLabels.length > 0)
RECURSIVE LabelRemaining(_, _, _)
LabelRemaining(pending, rows, obs) ==
    IF pending # <<>>
    THEN LabelRemaining(Tail(pending),
                        Append(rows, [sample |-> Head(pending).obs, future |-> obs]), obs)
    ELSE rows

\* collectData up to its loop: the header is written, startTime and endTime
\* are taken (the duration option; the default interval)
CollectData ==
    /\ colPc = "start"
    /\ colProg' = "hermes"
    /\ colPc' = IF 0 < MaxDuration THEN "loop" ELSE "final"
    /\ colNow' = 0
    /\ UNCHANGED <<ticks, colInflight, priceHistory, pendingLabels, output, samples, obsTime,
                   writeVars, parseVars, normVars, crankVars, e2eVars, infVars, depVars, testVars>>

\* one turn of the loop: getPythPrice returns null (or throws) or a price
\* (observation obs, at the time colNow): the history is extended and cut,
\* a sample is queued when there are enough of them, the pending samples that
\* are due are labelled with this price; then the wait for the next interval
\* and the test of the loop
LoopTurn ==
    /\ colProg = "hermes"
    /\ colPc = "loop"
    /\ \/ LET obs == Len(obsTime) + 1
              history == DropOld(Append(priceHistory, [obs |-> obs, timestamp |-> colNow]),
                                 colNow - HistorySeconds)
              queued == IF Len(history) >= MinSamples
                        THEN << [obs |-> obs, labelTime |-> colNow + LOOKAHEAD_SECONDS] >>
                        ELSE <<>>
              labelled == LabelDue(pendingLabels \o queued, output, colNow, obs)
          IN  /\ priceHistory' = history
              /\ obsTime' = Append(obsTime, colNow)
              /\ samples' = IF queued # <<>> THEN Append(samples, obs) ELSE samples
              /\ pendingLabels' = labelled[1]
              /\ output' = labelled[2]
       \/ UNCHANGED <<priceHistory, pendingLabels, output, samples, obsTime>>
    /\ colNow' = colNow + DEFAULT_INTERVAL
    /\ colPc' = IF colNow + DEFAULT_INTERVAL < MaxDuration THEN "loop" ELSE "final"
    /\ UNCHANGED <<colProg, ticks, colInflight,
                   writeVars, parseVars, normVars, crankVars, e2eVars, infVars, depVars, testVars>>

\* after the loop: the wait of LOOKAHEAD_SECONDS and a second, the final
\* price; with a final price every pending sample is labelled with it
FinalLabels ==
    /\ colProg = "hermes"
    /\ colPc = "final"
    /\ colNow' = colNow + FinalWait
    /\ colPc' = "done"
    /\ \/ /\ obsTime' = Append(obsTime, colNow + FinalWait)
          /\ output' = LabelRemaining(pendingLabels, output, Len(obsTime) + 1)
          /\ pendingLabels' = <<>>
       \/ UNCHANGED <<obsTime, output, pendingLabels>>
    /\ UNCHANGED <<colProg, ticks, colInflight, priceHistory, samples,
                   writeVars, parseVars, normVars, crankVars, e2eVars, infVars, depVars, testVars>>

(***************************************************************************)
(* Specifications                                                          *)
(***************************************************************************)
Init ==
    /\ crankPc = "start"
    /\ cycles = [c \in 1..MaxCycles |-> IdleCycle]
    /\ e2ePc = "start"
    /\ e2eIdx = 0
    /\ e2eInflight = FALSE
    /\ results = <<>>
    /\ prog = "none"
    /\ infPc = "start"
    /\ infNext = 0
    /\ features = <<>>
    /\ txs = {}
    /\ submitted = {}
    /\ confirmed = {}
    /\ featuresAcc = <<>>
    /\ hiddenAcc = {}
    /\ depPc = "start"
    /\ data = <<>>
    /\ chunkSize = 0
    /\ chunkI = 0
    /\ depTx = <<>>
    /\ account = <<>>
    /\ sent = <<>>
    /\ written = <<>>
    /\ testPc = "start"
    /\ decBytecode = 0
    /\ encBytecode = 0
    /\ testCase = 0
    /\ testTx = <<>>
    /\ passed = 0
    /\ failed = 0
    /\ wPc = "start"
    /\ wInit = <<>>
    /\ wAccount = <<>>
    /\ wFirst = <<>>
    /\ wIx = [offsetBuf |-> <<0, 0>>, payload |-> <<>>]
    /\ wBeyond = <<>>
    /\ parsePc = "start"
    /\ retValue = 0
    /\ returnData = <<>>
    /\ parsed = <<>>
    /\ prediction = <<>>
    /\ flags = <<>>
    /\ normPc = "start"
    /\ marketData = NoMarketData
    /\ normalized = <<>>
    /\ colProg = "none"
    /\ colPc = "start"
    /\ ticks = 0
    /\ colInflight = 0
    /\ colNow = 0
    /\ priceHistory = <<>>
    /\ pendingLabels = <<>>
    /\ output = <<>>
    /\ samples = <<>>
    /\ obsTime = <<>>

NextCrank ==
    \/ MainStart
    \/ \E c \in 1..MaxCycles : ExecuteConfirmed(c)
    \/ \E c \in 1..MaxCycles : ExecuteFailed(c)
    \/ \E c \in 1..MaxCycles : IntervalFire(c)
    \/ \E c \in 1..MaxCycles : ReadState(c)

NextE2E ==
    \/ E2EStart
    \/ E2EExecute
    \/ E2EConfirmed
    \/ E2EFailed
    \/ E2EDelay
    \/ E2ESummary

NextInf ==
    \/ BatchedMain
    \/ UserMain
    \/ InfSubmit
    \/ InfCompileThrows
    \/ \E k \in 1..Len(BATCHED_UNITS) : InfConfirmed(k)
    \/ \E k \in 1..Len(BATCHED_UNITS) : InfFailed(k)
    \/ InfGetTransaction

NextDeploy ==
    \/ DeployStart
    \/ DeployMain
    \/ ChunkConfirmed
    \/ ChunkFailed

NextRetry ==
    \/ DeployStart
    \/ ChunkConfirmed
    \/ ChunkRetried

NextWrite ==
    \/ WriteStart
    \/ WriteExecute

NextParse ==
    \/ DecoderReturns
    \/ ParseResult
    \/ DeployParse
    \/ CheckSignal

NextNorm ==
    \/ NormalizeFeatures
    \/ EncodeFeatures

NextCollect ==
    \/ Collect
    \/ TickFetched
    \/ IntervalTick
    \/ CollectData
    \/ LoopTurn
    \/ FinalLabels

NextTest ==
    \/ TestMain
    \/ TestCreateConfirmed
    \/ TestEncoderConfirmed
    \/ TestDecoderConfirmed
    \/ TestTxFailed

Next ==
    \/ NextCrank \/ NextE2E \/ NextInf \/ NextDeploy \/ NextTest
    \/ NextRetry \/ NextWrite \/ NextParse \/ NextNorm \/ NextCollect

SpecCrank == Init /\ [][NextCrank]_vars
SpecE2E == Init /\ [][NextE2E]_vars
SpecInf == Init /\ [][NextInf]_vars
SpecDeploy == Init /\ [][NextDeploy]_vars
SpecTest == Init /\ [][NextTest]_vars
SpecRetry == Init /\ [][NextRetry]_vars
SpecWrite == Init /\ [][NextWrite]_vars
SpecParse == Init /\ [][NextParse]_vars
SpecNorm == Init /\ [][NextNorm]_vars
SpecCollect == Init /\ [][NextCollect]_vars
Spec == Init /\ [][Next]_vars

\* crank.js with its awaits settling: the promise of sendAndConfirmTransaction
\* resolves or rejects (the library gives up on a transaction whose blockhash
\* has expired; the caller passes no timeout of its own) and
\* readAccumulatorState returns (its catch turns an error into null)
SpecCrankFair ==
    /\ SpecCrank
    /\ \A c \in 1..MaxCycles :
          /\ WF_vars(ExecuteConfirmed(c) \/ ExecuteFailed(c))
          /\ WF_vars(ReadState(c))

(***************************************************************************)
(* Properties                                                              *)
(***************************************************************************)

\* C1: when the transaction of script k of a crank cycle has failed, no
\* script with a greater index is submitted in that cycle.
C1_StopsOnFailure ==
    \A c \in 1..MaxCycles :
        cycles[c].failedAt # 0 =>
            ~(cycles[c].inflight /\ cycles[c].idx > cycles[c].failedAt)

\* C2: within one inference run at most one transaction is in flight, and
\* transaction k+1 is submitted only after transaction k was confirmed.
C2_OneUnitInFlight ==
    /\ Cardinality(txs) <= 1
    /\ \A k \in submitted : k > 1 => (k - 1) \in confirmed

\* C2 witness: the last hidden batch is in flight, all before it confirmed
C2_Witness ==
    /\ prog = "batched"
    /\ txs = {5}
    /\ confirmed = 1..4

\* C4: once writeToAccountChunked has returned, the account holds the data
\* byte for byte from offset 0 (and zeros after it), whatever the chunkSize.
C4_ChunkRoundTrip ==
    depPc = "done" =>
        /\ Len(account) >= Len(data)
        /\ \A j \in 1..Len(account) :
              account[j] = IF j <= Len(data) THEN data[j] ELSE 0

\* C4 witness: a deployment of several chunks, the last one shorter, is done
C4_Witness ==
    /\ depPc = "done"
    /\ Len(data) > chunkSize
    /\ Len(data) % chunkSize # 0
    /\ \E j \in 1..Len(data) : data[j] # 0
    /\ Len(account) > Len(data)

\* C8: every bytecode transaction handed to the substrate carries at most
\* maxBytecode bytes of bytecode and asks for at most the substrate's
\* compute maximum.
C8_ValidatedBeforeSubmit ==
    \A i \in 1..Len(testTx) :
        testTx[i].kind \in {"encoder", "decoder"} =>
            /\ testTx[i].size <= maxBytecode
            /\ testTx[i].units <= ComputeUnitLimit

\* C9 as claimed: for the script in flight and every account it reads, every
\* script of the list that writes the account has a smaller index.
C9_WritersBeforeReaders ==
    e2eInflight =>
        \A acct \in ScriptReads(e2eIdx) :
            \A w \in 1..NumAll : acct \in ScriptWrites(w) => w < e2eIdx

\* C9 amended: for the script in flight and every account it reads without
\* writing it itself, every script of the list that writes the account has a
\* smaller index; the same holds of every script of ACCUMULATOR_SCRIPTS.
C9_WritersBeforePureReaders ==
    /\ e2eInflight =>
          \A acct \in ScriptReads(e2eIdx) \ ScriptWrites(e2eIdx) :
              \A w \in 1..NumAll : acct \in ScriptWrites(w) => w < e2eIdx
    /\ \A k \in 1..NumCrank :
          \A acct \in CrankReads(k) \ CrankWrites(k) :
              \A w \in 1..NumCrank : acct \in CrankWrites(w) => w < k

\* C9 witness: "8. Features" is in flight; it reads the accumulator (written
\* by the seven scripts before it) without writing it
C9_Witness ==
    /\ e2eInflight
    /\ e2eIdx = 8
    /\ "accumulator" \in ScriptReads(e2eIdx) \ ScriptWrites(e2eIdx)
    /\ Len(results) = 7

\* C10: no account has more than one writing transaction in flight; crank
\* cycles writing the accumulator do not overlap.
C10_SingleWriterInFlight ==
    \A acct \in CrankAccounts : Cardinality(InFlightWriters(acct)) <= 1

\* C11: when a crank cycle in which the transaction of script k was rejected
\* has returned, what it returned to its caller names k as failed; no failure
\* is only logged.
C11_FailureInResult ==
    \A c \in 1..MaxCycles :
        (cycles[c].phase = "read" /\ cycles[c].failedAt # 0) =>
            cycles[c].failedAt \in ReportedFailures(cycles[c])

C13_IncreasingOffsets ==
    /\ \A i, j \in 1..Len(sent) : i < j => sent[i] < sent[j]
    /\ Len(depTx) <= 1
    /\ depTx # <<>> =>
          /\ Len(depTx[1].payload) <= chunkSize
          /\ \A k \in 0..(NumChunks(Len(data), chunkSize) - 1) :
                k * chunkSize < ReadOffset(depTx[1].offsetBuf) =>
                    k * chunkSize \in Range(written)

\* C13 witness: the third chunk is in flight, the first two are written
C13_Witness ==
    /\ depTx # <<>>
    /\ ReadOffset(depTx[1].offsetBuf) = 2 * chunkSize
    /\ written = <<0, chunkSize>>
    /\ sent = <<0, chunkSize, 2 * chunkSize>>

C15_WriteIdempotent ==
    wPc = "done" => wAccount = wFirst

\* C15 witness: the write was executed twice; the first one changed a byte
\* that is not the first of the account and left another byte alone
C15_Witness ==
    /\ wPc = "done"
    /\ ReadOffset(wIx.offsetBuf) > 0
    /\ wFirst # wInit
    /\ Len(wIx.payload) < Len(wAccount)

\* C16: the result's direction score is the floor of value / 1000 and its
\* confidence is the magnitude of the truncating remainder of value by 1000,
\* which lies in 0..999; 21184 gives (21, 184) and -75123 gives (-76, 123).
C16_DecodeResult ==
    (parsePc = "parsed" /\ returnData # <<>>) =>
        LET r == parsed[1]
            d == r.rawDirection
            c == r.confidence
        IN  /\ Len(parsed) = 1
            /\ IF retValue >= 0
               THEN retValue - d * 1000 \in 0..999
               ELSE retValue - (d + 1) * 1000 \in (-1000)..(-1)
            /\ c \in 0..999
            /\ IF retValue >= 0
               THEN c = retValue - d * 1000
               ELSE (retValue + c) % 1000 = 0
            /\ retValue = 21184 => (d = 21 /\ c = 184)
            /\ retValue = -75123 => (d = -76 /\ c = 123)

\* C16 witness: -75123 has been decoded
C16_Witness ==
    /\ parsePc = "parsed"
    /\ retValue = -75123
    /\ parsed # <<>>
    /\ parsed[1].rawDirection = -76

\* C17: every result has exactly one signal: hold when the confidence is
\* under 100 whatever the direction; otherwise strong_buy above 50, buy in
\* 1..50, strong_sell under -50, sell in -50..-1, hold at 0.
C17_SignalClassification ==
    (parsePc = "parsed" /\ returnData # <<>>) =>
        LET d == parsed[1].rawDirection
            c == parsed[1].confidence
            sig == parsed[1].signal
        IN  /\ sig \in {"strong_buy", "buy", "hold", "sell", "strong_sell"}
            /\ c < 100 => sig = "hold"
            /\ (c >= 100 /\ d > 50) => sig = "strong_buy"
            /\ (c >= 100 /\ d \in 1..50) => sig = "buy"
            /\ (c >= 100 /\ d < -50) => sig = "strong_sell"
            /\ (c >= 100 /\ d \in (-50)..(-1)) => sig = "sell"
            /\ (c >= 100 /\ d = 0) => sig = "hold"

\* C17 witness: a direction above 50 with a confidence under 100 is a hold
C17_Witness ==
    /\ parsePc = "parsed"
    /\ parsed # <<>>
    /\ parsed[1].rawDirection > 50
    /\ parsed[1].confidence = 99
    /\ parsed[1].signal = "hold"

\* C18: the value d * 1000 + c with 0 <= c < 1000 decodes to direction d and
\* confidence c (d is the floor of value / 1000 and c is value modulo 1000).
C18_DecodeInvertsPack ==
    (parsePc = "parsed" /\ returnData # <<>>) =>
        /\ parsed[1].rawDirection = retValue \div 1000
        /\ parsed[1].confidence = retValue % 1000

\* C19: a feature byte in the features account is the feature given,
\* saturated to 0..255: never the feature modulo 256.
C19_FeaturesSaturate ==
    1 \in confirmed =>
        \A i \in 1..Len(featuresAcc) : featuresAcc[i] = clamp(features[i])

\* C20: a centered feature is clamp(round(128 + raw * scale)) and a magnitude
\* feature is clamp(round(raw * scale)), rounded to the nearest integer.
C20_EncodeRounds ==
    normPc # "start" =>
        LET f == normalized[1]
            md == marketData
        IN  /\ f.volumeAccel = clamp(MathRound(128 * RawDen + md.volumeChange * 64, RawDen))
            /\ f.orderbookImbal = clamp(MathRound(128 * RawDen + md.bidAskRatio * 64, RawDen))
            /\ f.momentum = clamp(MathRound(128 * RawDen + md.momentum * 127, RawDen))
            /\ f.volatility = clamp(MathRound(md.volatility * 255, RawDen))
            /\ f.liquidity = clamp(MathRound(md.liquidityRatio * 255, RawDen))

\* C21: a write the handler applies lies within the account, offset plus
\* length at most the account's length; a write that would pass the end is
\* refused and leaves the account as it was; the account keeps its length and
\* no byte of the memory after the account's data is ever modified.
C21_WritesWithinCapacity ==
    /\ Len(wAccount) = Len(wInit)
    /\ wPc # "start" => wBeyond = BeyondBytes
    /\ wPc \in {"second", "done"} =>
          ReadOffset(wIx.offsetBuf) + Len(wIx.payload) <= Len(wInit)
    /\ (wPc \in {"second", "done", "rejected"}
          /\ ReadOffset(wIx.offsetBuf) + Len(wIx.payload) > Len(wInit)) =>
          /\ wPc = "rejected"
          /\ wAccount = wInit

\* C21 witness: a write that starts inside the account and would pass its
\* end with a non-zero byte has been refused
C21_Witness ==
    /\ wPc = "rejected"
    /\ ReadOffset(wIx.offsetBuf) < Len(wInit)
    /\ ReadOffset(wIx.offsetBuf) + Len(wIx.payload) > Len(wInit)
    /\ wIx.payload[Len(wIx.payload)] # 0

\* C27: a write of n bytes applied at offset o leaves the account with the
\* payload at o..o+n-1 and every other byte, of the account and of the memory
\* after it, as before; a refused write changes nothing.
C27_WriteFrame ==
    LET o == ReadOffset(wIx.offsetBuf)
        n == Len(wIx.payload)
    IN  /\ wPc \in {"second", "done"} =>
              /\ Len(wFirst) = Len(wInit)
              /\ \A j \in 1..Len(wInit) :
                    IF j > o /\ j <= o + n
                    THEN wFirst[j] = wIx.payload[j - o] /\ wAccount[j] = wFirst[j]
                    ELSE wFirst[j] = wInit[j] /\ wAccount[j] = wInit[j]
              /\ wBeyond = BeyondBytes
        /\ wPc = "rejected" =>
              /\ wAccount = wInit
              /\ wBeyond = BeyondBytes

\* C27 witness: a write in the middle of the account has been applied, it
\* changed a byte and there are bytes before and after it
C27_Witness ==
    /\ wPc = "second"
    /\ ReadOffset(wIx.offsetBuf) > 0
    /\ ReadOffset(wIx.offsetBuf) + Len(wIx.payload) < Len(wInit)
    /\ wFirst # wInit

\* C23: every run of the crank's scripts ends: a script in flight is settled
\* (confirmed or failed), the run leaves its loop, and a run in which a
\* script has failed is stopped there, it is not in its loop any more.
C23_RunTerminates ==
    \A c \in 1..MaxCycles :
        /\ (cycles[c].phase = "run") ~> (cycles[c].phase # "run")
        /\ [](cycles[c].failedAt # 0 => cycles[c].phase # "run")

ChunkAt(buf, o) ==
    SubSeq(buf, o + 1, IF o + chunkSize > Len(data) THEN Len(data) ELSE o + chunkSize)

\* C25 (as stated): every chunk of data that fit the account gets a write
\* instruction whose two byte little-endian tag decodes to the chunk's
\* offset in the data, and the handler copies the chunk to that offset.
C25_EveryChunkTagged ==
    (depPc # "start" /\ Len(account) >= Len(data)) =>
        /\ \A i \in 0..(NumChunks(Len(data), chunkSize) - 1) :
              /\ ChunkOffset(i, chunkSize) <= U16_MAX
              /\ ReadOffset(WriteUInt16LE(ChunkOffset(i, chunkSize))) =
                    ChunkOffset(i, chunkSize)
        /\ depTx # <<>> => ReadOffset(depTx[1].offsetBuf) = chunkI * chunkSize
        /\ \A i \in 1..Len(written) :
              /\ written[i] = (i - 1) * chunkSize
              /\ ChunkAt(account, written[i]) = ChunkAt(data, written[i])

\* C25 (amended): the same for every chunk whose offset is at most 65535;
\* the deployment throws at the first chunk with a larger offset, and only
\* there.
C25_TagDecodesToOffset ==
    Len(account) >= Len(data) =>
        /\ depTx # <<>> =>
              /\ ReadOffset(depTx[1].offsetBuf) = chunkI * chunkSize
              /\ chunkI * chunkSize <= U16_MAX
        /\ \A i \in 1..Len(written) :
              /\ written[i] = (i - 1) * chunkSize
              /\ ChunkAt(account, written[i]) = ChunkAt(data, written[i])
        /\ depPc = "threw" =>
              /\ chunkI * chunkSize > U16_MAX
              /\ (chunkI - 1) * chunkSize <= U16_MAX
              /\ Len(written) = chunkI

\* C25 witness: a chunk whose tag has two non-zero bytes is in flight, the
\* chunks before it are in the account
C25_Witness ==
    /\ Len(account) >= Len(data)
    /\ depTx # <<>>
    /\ depTx[1].offsetBuf[1] > 0
    /\ depTx[1].offsetBuf[2] > 0
    /\ Len(written) = chunkI

\* C26: a script is handed over with an account writable exactly when the
\* account is one the script is declared to write (so no account it only
\* reads is writable and every account it writes is), in the crank and in
\* the end-to-end run; the SDK passes the hidden account writable to the
\* encoder, read-only to the decoder, and the weights read-only to both.
C26_WritableOnlyOutputs ==
    /\ \A c \in 1..MaxCycles :
          cycles[c].inflight =>
              /\ CrankWrites(cycles[c].idx) = DeclaredOutputs(cycles[c].idx)
              /\ CrankWrites(cycles[c].idx) \subseteq CrankReads(cycles[c].idx)
    /\ \A k \in 1..NumAll :
          /\ ScriptWrites(k) = DeclaredOutputs(k)
          /\ ScriptWrites(k) \subseteq ScriptReads(k)
    /\ WritableSlots(ENCODER_KEYS) = {"hidden"}
    /\ WritableSlots(DECODER_KEYS) = {}

\* C26 witness: acc_dex_price, which reads two vaults and writes the
\* accumulator, is in flight
C26_Witness ==
    \E c \in 1..MaxCycles :
        /\ cycles[c].inflight
        /\ cycles[c].idx = 6
        /\ CrankReads(6) \ CrankWrites(6) = {"raydium_sol", "raydium_usdc"}

\* C28: the deployment script and parseResult decode the same return value
\* to the same direction and the same confidence, for negative values too.
C28_DecodersAgree ==
    (parsed # <<>> /\ prediction # <<>>) =>
        /\ prediction[1].direction = parsed[1].rawDirection
        /\ prediction[1].confidence = parsed[1].confidence

\* C29: for a result of parseResult isBullish and isBearish are never both
\* true, a bullish result has the signal buy or strong_buy and a bearish one
\* the signal sell or strong_sell.
C29_BullishBearish ==
    flags # <<>> =>
        /\ ~(flags[1].bullish /\ flags[1].bearish)
        /\ flags[1].bullish => parsed[1].signal \in {"buy", "strong_buy"}
        /\ flags[1].bearish => parsed[1].signal \in {"sell", "strong_sell"}

\* C29 witness: a result with a direction score of at most 50 and a
\* confidence just over 150 is bullish
C29_Witness ==
    /\ flags # <<>>
    /\ flags[1].bullish
    /\ parsed[1].confidence = 151
    /\ parsed[1].signal = "buy"

\* the samples collected are, in the order of collection, the samples of the
\* rows written followed by the samples pending: a sample is written at most
\* once, never out of order, and is pending until it is written
InCollectionOrder ==
    /\ Len(output) + Len(pendingLabels) = Len(samples)
    /\ \A i \in 1..Len(output) : output[i].sample = samples[i]
    /\ \A j \in 1..Len(pendingLabels) : pendingLabels[j].obs = samples[Len(output) + j]

\* the row of the i-th sample has the price observed with the sample that
\* came LOOKAHEAD samples after it
LookaheadInSamples(i) ==
    /\ i + LOOKAHEAD <= Len(samples)
    /\ output[i].future = samples[i + LOOKAHEAD]

\* the row of the i-th sample has the first price observed LOOKAHEAD_SECONDS
\* or more after the sample
LookaheadInSeconds(i) ==
    LET due == obsTime[output[i].sample] + LOOKAHEAD_SECONDS
    IN  /\ obsTime[output[i].future] >= due
        /\ \A o \in (output[i].sample + 1)..(output[i].future - 1) : obsTime[o] < due

====
